---- MODULE Spec2Model ----
(***************************************************************************)
(* A model of gen.py, the LuaJIT FFI binding generator for ImGui headers.  *)
(* A generation run reads a cursor tree (the AST provider's output), runs  *)
(* detectOverloads over it and then _traverse, appending text fragments to *)
(* three files: the FFI declaration file (tVMFile), the host export file   *)
(* (tHostFile) and the Lua wrapper file (tLuaFile).                        *)
(*                                                                         *)
(* Text is modelled as TLA+ strings; Python's str methods are operators on *)
(* them.  Python's None for a string argument is the empty string (the     *)
(* code only ever tests such arguments for truth).  A Python dict is a     *)
(* sequence of [k, v] records in insertion order.                          *)
(***************************************************************************)
EXTENDS Integers, Sequences, FiniteSets, TLC

VARIABLES
  tu,               \* the translation unit cursor handed to generate()
  pc,               \* position of generate(): "start", "traverse", "done"
  stack,            \* pending _traverse calls, innermost first: [c, level]
  functionRenames,  \* self.functionRenames: USR -> emitted name
  tVMFile,          \* fragments written to generated/imgui_gen.h
  tHostFile,        \* fragments written to generated/imguiApiHostGenerated.cpp
  tLuaFile,         \* fragments written to generated/imgui_gen.lua
  optDecl,          \* the declaration given to getLuaFunctionOptionalParams
  optResult,        \* what getLuaFunctionOptionalParams returned for it
  previous          \* what the run before this one left: the rename table
                    \* and the three files, NoRun before the first run ends

vars == <<tu, pc, stack, functionRenames, tVMFile, tHostFile, tLuaFile,
          optDecl, optResult, previous>>

-----------------------------------------------------------------------------
(* Bounds of the model.                                                    *)

\* number of declarations at the top level of the header
MaxTop == 2

-----------------------------------------------------------------------------
(* Python str methods.                                                     *)

\* s[a:] with a >= 0
From(s, a) == SubSeq(s, a + 1, Len(s))

\* s[:b] with b >= 0
Upto(s, b) == SubSeq(s, 1, IF b < Len(s) THEN b ELSE Len(s))

StartsWith(s, sub) == Len(sub) <= Len(s) /\ SubSeq(s, 1, Len(sub)) = sub

\* s.find(sub): the lowest 0-based index of sub in s, or -1
Find(s, sub) ==
  LET hits == { i \in 0..(Len(s) - Len(sub)) :
                  SubSeq(s, i + 1, i + Len(sub)) = sub }
  IN IF hits = {} THEN -1 ELSE CHOOSE i \in hits : \A j \in hits : i <= j

RECURSIVE Replace(_, _, _)
\* s.replace(old, new), old not empty
Replace(s, old, new) ==
  LET i == Find(s, old)
  IN IF i = -1 THEN s
     ELSE Upto(s, i) \o new \o Replace(From(s, i + Len(old)), old, new)

\* the characters that str.strip() takes away, among those a string of the
\* model can hold: space, \t, \n, \r, \f, the characters of codes 11 and 28
\* to 31, which stand here as themselves, and U+0085, U+00A0 and U+1680.
\* (The other Unicode spaces, U+2000 and above, cannot stand in a string.)
\* The last three are written as themselves, in UTF-8, and are taken only
\* where the module's bytes were read as those characters. Read as UTF-8,
\* each is one character. Read byte by byte as Latin-1, U+0085 and U+00A0
\* are two different characters, the second being the character itself, and
\* U+1680 is three, none of which a string can then hold as U+1680. Read as
\* ASCII, every byte above 127 is the same replacement character, which
\* str.strip() keeps: a literal of two equal characters gives nothing.
Whitespace == {" ", "\t", "\n", "\r", "\f", "", "", "", "", ""} \cup { SubSeq(w, Len(w), Len(w)) : w \in { v \in {"", " ", " "} : Len(v) = 1 \/ (Len(v) = 2 /\ SubSeq(v, 1, 1) # SubSeq(v, 2, 2)) } }

RECURSIVE LStrip(_)
\* s.lstrip()
LStrip(s) == IF Len(s) > 0 /\ SubSeq(s, 1, 1) \in Whitespace
             THEN LStrip(From(s, 1)) ELSE s

RECURSIVE RStrip(_)
\* s.rstrip()
RStrip(s) == IF Len(s) > 0 /\ SubSeq(s, Len(s), Len(s)) \in Whitespace
             THEN RStrip(Upto(s, Len(s) - 1)) ELSE s

\* s.strip()
Strip(s) == RStrip(LStrip(s))

RECURSIVE Join(_, _)
\* sep.join(seq)
Join(seq, sep) ==
  IF Len(seq) = 0 THEN ""
  ELSE IF Len(seq) = 1 THEN seq[1]
  ELSE seq[1] \o sep \o Join(Tail(seq), sep)

RECURSIVE Rep(_, _)
\* s * n (empty when n <= 0)
Rep(s, n) == IF n <= 0 THEN "" ELSE s \o Rep(s, n - 1)

RECURSIVE Concat(_)
\* the text of a file: its fragments one after the other
Concat(seq) == IF Len(seq) = 0 THEN "" ELSE seq[1] \o Concat(Tail(seq))

-----------------------------------------------------------------------------
(* Python dicts, in insertion order.                                       *)

DictHas(d, k) == \E i \in 1..Len(d) : d[i].k = k

DictGet(d, k) == d[CHOOSE i \in 1..Len(d) : d[i].k = k].v

\* d[k] = v: a new key goes last, an old key keeps its place
DictSet(d, k, v) ==
  IF DictHas(d, k)
  THEN [i \in 1..Len(d) |-> IF d[i].k = k THEN [k |-> k, v |-> v] ELSE d[i]]
  ELSE Append(d, [k |-> k, v |-> v])

-----------------------------------------------------------------------------
(* Configuration.                                                          *)

skip_names == {
  "SetAllocatorFunctions", "MemAlloc", "MemFree", "LoadIniSettingsFromDisk",
  "LoadIniSettingsFromMemory", "SaveIniSettingsToDisk",
  "SaveIniSettingsToMemory", "ImGuiOnceUponAFrame", "ImNewDummy",
  "ImDrawChannel", "ImFontGlyphRangesBuilder_BuildRanges" }

skip_usrs == {
  "c:@N@ImGui@F@SetNextWindowClass#*$@S@ImGuiContext#*1$@S@ImGuiWindowClass#",
  "c:@N@ImGui@F@CreateContext#*$@S@ImFontAtlas#",
  "c:@N@ImGui@F@DestroyContext#*$@S@ImGuiContext#",
  "c:@S@ImVec2",
  "c:@S@ImVec4",
  "c:@N@ImGui@F@LogText#*$@S@ImGuiContext#*1C.#",
  "c:@S@ImGuiTextBuffer@F@appendf#*1C.#",
  "c:@S@ImFontAtlas@F@GetCustomRectByIndex#I#1",
  "c:@S@ImFontAtlas@F@CalcCustomRectUV#*1$@S@ImFontAtlas@S@CustomRect#*$@S@ImVec2#S2_#",
  "c:@S@ImFontGlyphRangesBuilder@F@BuildRanges#*$@S@ImVector>#s#" }

skip_constructors == { "ImGuiTextFilter", "ImDrawList" }

debug == FALSE

reserved_lua_keywords == {
  "and", "break", "do", "else", "elseif", "end", "false", "for", "function",
  "if", "in", "local", "nil", "not", "or", "repeat", "return", "then", "true",
  "until", "while" }

-----------------------------------------------------------------------------
(* The AST provider's values: types and cursors.                           *)

\* a type that is its own canonical type
Ty(kind, spelling) == [kind |-> kind, spelling |-> spelling]

\* a typedef type and the canonical type it resolves to
TyDef(spelling, canon) ==
  [kind |-> "TYPEDEF", spelling |-> spelling, canonical |-> canon]

\* Type.get_canonical()
get_canonical(t) == IF t.kind = "TYPEDEF" THEN t.canonical ELSE t

TVoid == Ty("VOID", "void")

\* a cursor with nothing in it; the builders below fill in what a kind has
Cursor(kind, spelling, usr) ==
  [kind |-> kind, spelling |-> spelling, usr |-> usr, type |-> TVoid,
   result_type |-> TVoid, variadic |-> FALSE, args |-> <<>>, tokens |-> <<>>,
   children |-> <<>>, is_definition |-> TRUE, in_file |-> TRUE,
   content |-> "", enum_type |-> TVoid]

\* Cursor.get_children(): a function's children are its parameters
get_children(c) ==
  IF c.kind \in {"FUNCTION_DECL", "CXX_METHOD", "CONSTRUCTOR"}
  THEN c.args ELSE c.children

-----------------------------------------------------------------------------
(* Type Mapper.                                                            *)

\* this function prevents lua parameters being lua keywords
luaParameterSpelling(c, addSimpleType) ==
  LET parName == c.spelling
      t0 == c.type.spelling
      t1 == IF Find(t0, "[") >= 0
            THEN Strip(Upto(t0, Find(t0, "["))) \o "Ptr" ELSE t0
      t2 == Replace(t1, "const ", "")
      t3 == Replace(t2, "unsigned ", "")
      t4 == Replace(t3, " ", "")
      t5 == Replace(t4, "*", "")
      t6 == Replace(t5, "&", "")
      simpletype == IF Find(t0, "(*)") >= 0 THEN "functionPtr"
                    ELSE IF t6 = "char" THEN "string" ELSE t6
  IN IF parName \in reserved_lua_keywords THEN "_" \o parName
     ELSE IF addSimpleType THEN simpletype \o "_" \o parName
     ELSE parName

\* fixes up some variable naming and type things
getCVarStr(c, addSimpleType) ==
  LET ts == c.type.spelling
      res == IF Find(ts, "[") >= 0
             THEN Strip(Upto(ts, Find(ts, "["))) \o " " \o c.spelling
                  \o From(ts, Find(ts, "["))
             ELSE IF Find(ts, "<") >= 0
             THEN Strip(Upto(ts, Find(ts, "<"))) \o " "
                  \o luaParameterSpelling(c, addSimpleType)
             ELSE IF Find(ts, "(*)") >= 0
             THEN Replace(ts, "(*)",
                          "(*" \o luaParameterSpelling(c, addSimpleType) \o ")")
             ELSE ts \o " " \o luaParameterSpelling(c, addSimpleType)
  IN Replace(Replace(res, " &", "*"), " *", "*")

stripSizeOf(s) ==
  LET i == Find(s, "(")
      s1 == IF i >= 0 THEN From(s, i + 1) ELSE s
      j == Find(s1, ")")
  IN IF j >= 0 THEN Upto(s1, j) ELSE s1

RECURSIVE luaifyValueWithType(_, _)
\* converts a c value to a lua value - used for optional arguments.
\* The result is [ret, p]: the value returned and the parameter cursor as the
\* call leaves it (the typedef branch assigns p.type).
luaifyValueWithType(p, s) ==
  LET t == p.type
      k == t.kind
  IN IF k = "BOOL" THEN [ret |-> s, p |-> p]
     ELSE IF k = "INT" \/ k = "UINT"
     THEN LET s1 == IF StartsWith(s, "Im") THEN "M." \o s ELSE s
              s2 == IF StartsWith(s1, "sizeof")
                    THEN "ffi.sizeof('" \o stripSizeOf(s1) \o "')" ELSE s1
          IN [ret |-> s2, p |-> p]
     ELSE IF k = "FLOAT" \/ k = "DOUBLE"
     THEN [ret |-> Replace(Replace(Replace(s, "+", ""), "f", ""), ".0", ""),
           p |-> p]
     ELSE IF (k = "POINTER" \/ k = "TYPEDEF") /\ (s = "nullptr" \/ s = "NULL")
     THEN [ret |-> "nil", p |-> p]
     ELSE IF k = "POINTER" /\ SubSeq(s, 1, 1) = "\""
     THEN [ret |-> s, p |-> p]
     ELSE IF k = "LVALUEREFERENCE" \/ k = "RECORD" \/ k = "ENUM"
     THEN [ret |-> "M." \o s, p |-> p]
     ELSE IF k = "TYPEDEF"
     THEN luaifyValueWithType([p EXCEPT !.type = get_canonical(t)], s)
     ELSE [ret |-> s, p |-> p]

\* converts a c value to a lua value - used for optional arguments
luaifyValue(cParent, s) == luaifyValueWithType(cParent, s)

-----------------------------------------------------------------------------
(* Optional-Argument Extractor.                                            *)

IsPunct(tok, sp) == tok.kind = "PUNCTUATION" /\ tok.spelling = sp

\* the index i (0-based) at which the scan for parameter name stops: the first
\* identifier token with that spelling (and i < len(token) - 3), or -1
firstMatch(token, name) ==
  LET hits == { i \in 0..(Len(token) - 1) :
                  /\ token[i + 1].kind = "IDENTIFIER"
                  /\ token[i + 1].spelling = name
                  /\ i < Len(token) - 3 }
  IN IF hits = {} THEN -1
     ELSE CHOOSE i \in hits : \A j \in hits : i <= j

RECURSIVE walkOptArg(_, _, _, _)
\* the while loop: consume tokens from index i (0-based) until the next
\* valid comma or the closing parenthesis
walkOptArg(token, i, braceStack, optArg) ==
  IF ~(i < Len(token) - 1) THEN optArg
  ELSE LET tok == token[i + 1]
       IN IF IsPunct(tok, "(")
          THEN walkOptArg(token, i + 1, braceStack + 1, optArg \o tok.spelling)
          ELSE IF IsPunct(tok, ")")
          THEN IF braceStack <= 0 THEN optArg
               ELSE walkOptArg(token, i + 1, braceStack - 1,
                               optArg \o tok.spelling)
          ELSE IF IsPunct(tok, ",") /\ braceStack <= 0 THEN optArg
          ELSE walkOptArg(token, i + 1, braceStack, optArg \o tok.spelling)

\* whether the scan finds a default for the parameter named name
hasOptArg(token, name) ==
  LET i == firstMatch(token, name)
  IN /\ i >= 0
     /\ IsPunct(token[i + 2], "=")
     /\ i + 1 < Len(token) - 2

\* the default's text, when hasOptArg
optArgOf(token, name) == walkOptArg(token, firstMatch(token, name) + 2, 0, "")

RECURSIVE optionalParamsFrom(_, _, _)
\* the loop over c.get_arguments(), from the j-th parameter on
optionalParamsFrom(c, j, parameter_opt) ==
  IF j > Len(c.args) THEN parameter_opt
  ELSE LET p == c.args[j]
       IN IF hasOptArg(c.tokens, p.spelling)
          THEN LET r == luaifyValue(p, optArgOf(c.tokens, p.spelling))
               IN optionalParamsFrom(c, j + 1,
                    DictSet(parameter_opt, luaParameterSpelling(r.p, TRUE),
                            r.ret))
          ELSE optionalParamsFrom(c, j + 1, parameter_opt)

\* the dict of defaults; None is the empty dict (the caller only tests it
\* for truth, and an empty dict is never returned)
getLuaFunctionOptionalParams(c) == optionalParamsFrom(c, 1, <<>>)

-----------------------------------------------------------------------------
(* BindingGenerator: names and signatures.                                 *)

\* the source text of the cursor's extent (c.content), stripped; "<>" for
\* an extent of several lines when only a short text is wanted
getContent(c, shortOnly) ==
  IF shortOnly /\ Find(c.content, "\n") >= 0 THEN "<>"
  ELSE Strip(c.content)

getCursorDebug(c, prefix) == IF ~debug THEN "" ELSE prefix \o c.usr

\* ability to change the function name when overloads exist
getFunctionName(c) ==
  IF c.usr \in DOMAIN functionRenames THEN functionRenames[c.usr]
  ELSE c.spelling

\* the return type after a typedef is resolved
effectiveReturnType(c) ==
  IF c.result_type.kind = "TYPEDEF" THEN get_canonical(c.result_type)
  ELSE c.result_type

\* the return type the signature declares
signatureResType(c, isHost) ==
  LET ert == effectiveReturnType(c).spelling
  IN IF isHost /\ ert = "ImVec2" THEN "ImVec2_C"
     ELSE IF isHost /\ (ert = "ImVec4" \/ ert = "ImColor") THEN "ImVec4_C"
     ELSE c.result_type.spelling

getCFunctionSignature(c, prefix, firstArg, isHost) ==
  LET parameters ==
        (IF firstArg # "" THEN <<firstArg>> ELSE <<>>)
        \o [j \in 1..Len(c.args) |-> getCVarStr(c.args[j], FALSE)]
        \o (IF c.variadic THEN <<"...">> ELSE <<>>)
  IN [signature |-> signatureResType(c, isHost) \o " " \o prefix
                    \o getFunctionName(c) \o "(" \o Join(parameters, ", ")
                    \o ")",
      resStr |-> IF signatureResType(c, isHost) = "void" THEN ""
                 ELSE "return ",
      parameter_names |->
        [j \in 1..Len(c.args) |-> luaParameterSpelling(c.args[j], FALSE)],
      isVariadic |-> c.variadic,
      parameter_deref |->
        [j \in 1..Len(c.args) |-> c.args[j].type.kind = "LVALUEREFERENCE"]]

-----------------------------------------------------------------------------
(* Function emitters.                                                      *)

_generateCVMFunction(c, prefix, firstArg) ==
  getCFunctionSignature(c, prefix, firstArg, FALSE).signature \o ";"
    \o getCursorDebug(c, "   // ") \o "\n"

\* the statements of a host export that forward the call and return
hostForward(c, resStr, cNamespace, functionAppendix, paramStr) ==
  (IF effectiveReturnType(c).spelling = "ImVec2"
   THEN "  const ImVec2& res_cxx = "
   ELSE IF effectiveReturnType(c).spelling \in {"ImVec4", "ImColor"}
   THEN "  const ImVec4& res_cxx = "
   ELSE "  " \o resStr)
  \o cNamespace \o c.spelling \o functionAppendix \o "(" \o paramStr
  \o ");\n"
  \o (IF effectiveReturnType(c).spelling = "ImVec2"
      THEN "  ImVec2_C res_c = {res_cxx.x, res_cxx.y};\n"
           \o "  return res_c;\n"
      ELSE IF effectiveReturnType(c).spelling \in {"ImVec4", "ImColor"}
      THEN "  ImVec4_C res_c = {res_cxx.x, res_cxx.y, res_cxx.z, res_cxx.w};\n"
           \o "  return res_c;\n"
      ELSE "")

\* built the parameter string
hostParamStr(parameter_names, parameter_deref) ==
  Join([i \in 1..Len(parameter_names) |->
          IF parameter_deref[i] THEN "*" \o parameter_names[i]
          ELSE parameter_names[i]], ", ")

\* the text of a host export, given the signature tuple sig of the function
hostExport(c, sig, cNamespace) ==
  (IF debug THEN "\n" \o getCursorDebug(c, "// ") \o "\n" ELSE "")
  \o "FFI_EXPORT " \o sig.signature \o " {\n"
  \o (IF sig.isVariadic
      THEN "  va_list args;\n" \o "  va_start(args, fmt);\n" ELSE "")
  \o hostForward(c, sig.resStr, cNamespace,
                 IF sig.isVariadic THEN "V" ELSE "",
                 hostParamStr(
                   sig.parameter_names
                     \o (IF sig.isVariadic THEN <<"args">> ELSE <<>>),
                   sig.parameter_deref
                     \o (IF sig.isVariadic THEN <<FALSE>> ELSE <<>>)))
  \o (IF sig.isVariadic THEN "  va_end(args);\n" ELSE "")
  \o "}\n\n"

_generateCHostFunction(c, prefix, cNamespace, firstArgName, firstArgType) ==
  hostExport(c,
             getCFunctionSignature(
               c, prefix,
               IF firstArgName # "" /\ firstArgType # ""
               THEN firstArgType \o "* " \o firstArgName ELSE "",
               TRUE),
             cNamespace)

\* the wrapper's parameter list: every parameter not named ctx
luaParameters(c, firstArg, isVariadic) ==
  LET named == SelectSeq(c.args, LAMBDA p : p.spelling # "ctx")
      own == [j \in 1..Len(named) |-> luaParameterSpelling(named[j], TRUE)]
      withFirst == IF firstArg # "" THEN <<firstArg>> \o own ELSE own
  IN IF isVariadic THEN Append(withFirst, "...") ELSE withFirst

RECURSIVE ptrChecksFrom(_, _, _)
\* parameter_PtrChecks: the parameters whose type spelling has a '*'
ptrChecksFrom(c, j, checks) ==
  IF j > Len(c.args) THEN checks
  ELSE LET p == c.args[j]
       IN IF p.spelling # "ctx" /\ Find(p.type.spelling, "*") # -1
          THEN ptrChecksFrom(c, j + 1,
                 DictSet(checks, luaParameterSpelling(p, TRUE),
                         p.type.spelling))
          ELSE ptrChecksFrom(c, j + 1, checks)

\* one line of the wrapper per recovered default
optLine(e) ==
  IF e.v = "nil" THEN "  -- " \o e.k \o " is optional and can be nil\n"
  ELSE "  if " \o e.k \o " == nil then " \o e.k \o " = " \o e.v \o " end\n"

\* the nil-check of a pointer parameter
ptrCheckLine(c, e) ==
  "  if " \o e.k \o " == nil then log(\"E\", \"\", \"Parameter '" \o e.k
    \o "' of function '" \o getFunctionName(c)
    \o "' cannot be nil, as the c type is '" \o e.v \o "'\") ; return end\n"

\* the text of a wrapper, given its parameter list, the recovered defaults and
\* the pointer parameters
luaWrapper(c, prefixLua, prefixC, parameters, parameter_opt, ptrChecks) ==
  (IF debug THEN "\n" \o getCursorDebug(c, "-- ") \o "\n" ELSE "")
  \o "function M." \o prefixLua \o getFunctionName(c) \o "("
  \o Join(parameters, ", ") \o ") "
  \o (IF Len(parameter_opt) > 0
      THEN "\n" \o Concat([i \in 1..Len(parameter_opt) |->
                              optLine(parameter_opt[i])])
      ELSE "")
  \o (IF Len(ptrChecks) > 0
      THEN (IF ~(debug \/ Len(parameter_opt) > 0) THEN "\n" ELSE "")
           \o Concat([i \in 1..Len(ptrChecks) |->
                        IF DictHas(parameter_opt, ptrChecks[i].k)
                        THEN ""
                        ELSE ptrCheckLine(c, ptrChecks[i])])
      ELSE "")
  \o (IF debug
      THEN "\n  print(\"*** calling FFI: " \o prefixC \o getFunctionName(c)
           \o "("
           \o Join([i \in 1..Len(parameters) |->
                      "\" .. dumps("
                      \o (IF parameters[i] = "..." THEN "{...}"
                          ELSE parameters[i])
                      \o ") .. \""], ", ")
           \o ")\")\n"
      ELSE "")
  \o (IF debug \/ Len(parameter_opt) > 0 \/ Len(ptrChecks) > 0
      THEN "  " ELSE "")
  \o (IF c.result_type.spelling # "void" THEN "return " ELSE "")
  \o "C." \o prefixC \o getFunctionName(c) \o "(" \o Join(parameters, ", ")
  \o ")"
  \o (IF debug \/ Len(parameter_opt) > 0 \/ Len(ptrChecks) > 0
      THEN "\nend\n" ELSE " end\n")

_generateLuaVMFunction(c, prefixLua, prefixC, firstArg) ==
  luaWrapper(c, prefixLua, prefixC,
             luaParameters(
               c, firstArg,
               getCFunctionSignature(c, "imgui_", "", FALSE).isVariadic),
             getLuaFunctionOptionalParams(c),
             ptrChecksFrom(c, 1, <<>>))

-----------------------------------------------------------------------------
(* Struct, constructor and enum emitters.                                  *)

IsSkipped(c) == c.usr \in skip_usrs \/ c.spelling \in skip_names

IsTemplate(c) == c.kind = "CLASS_TEMPLATE" \/ c.kind = "FUNCTION_TEMPLATE"

IsFunction(c) == c.kind = "FUNCTION_DECL" \/ c.kind = "CXX_METHOD"

RECURSIVE _generateCVMStruct(_, _)
RECURSIVE cvmStructRes(_, _, _)

\* what the child ch of struct c adds to res
cvmStructRes(c, ch, level) ==
  IF ch.kind = "FIELD_DECL"
  THEN IF Find(ch.type.spelling, "(") >= 0
       THEN Rep("  ", level + 1) \o "void* " \o ch.spelling
            \o "; // complex callback: " \o ch.type.spelling \o " - "
            \o getCursorDebug(ch, "") \o "\n"
       ELSE Rep("  ", level + 1) \o getCVarStr(ch, FALSE) \o ";"
            \o getCursorDebug(ch, "   // ") \o "\n"
  ELSE IF ch.kind = "CONSTRUCTOR" /\ level = 0 THEN ""
  ELSE IF ch.kind = "STRUCT_DECL" \/ ch.kind = "UNION_DECL"
  THEN Rep("  ", level + 1) \o getCursorDebug(ch, " // ") \o "\n"
       \o _generateCVMStruct(ch, level + 1)
  ELSE ""

\* what the child ch of struct c adds to functionCache
cvmStructFunctionCache(c, ch, level) ==
  IF ch.kind = "FIELD_DECL" THEN ""
  ELSE IF ch.kind = "CONSTRUCTOR" /\ level = 0
  THEN "// " \o _generateCVMFunction(ch, "imgui_", "")
  ELSE IF ch.kind = "STRUCT_DECL" \/ ch.kind = "UNION_DECL" THEN ""
  ELSE IF IsFunction(ch) /\ Find(ch.spelling, "operator") = -1 /\ level = 0
  THEN IF IsSkipped(ch) THEN ""
       ELSE _generateCVMFunction(ch, "imgui_" \o c.spelling \o "_",
                                 c.spelling \o "* " \o c.spelling \o "_ctx")
  ELSE ""

_generateCVMStruct(c, level) ==
  LET chs == get_children(c)
      open == IF c.kind = "STRUCT_DECL"
              THEN IF level = 0
                   THEN Rep("  ", level - 1) \o "typedef struct " \o c.spelling
                        \o " {\n"
                   ELSE Rep("  ", level - 1) \o "struct " \o c.spelling
                        \o " {\n"
              ELSE IF c.kind = "UNION_DECL"
              THEN "\n" \o Rep("  ", level - 1) \o "union {\n"
              ELSE ""
      close == IF c.kind = "STRUCT_DECL"
               THEN IF level = 0
                    THEN Rep("  ", level) \o "} " \o c.spelling \o ";\n"
                    ELSE Rep("  ", level) \o "};\n"
               ELSE IF c.kind = "UNION_DECL"
               THEN Rep("  ", level) \o "};\n"
               ELSE ""
  IN open
     \o Concat([j \in 1..Len(chs) |-> cvmStructRes(c, chs[j], level)])
     \o close
     \o Concat([j \in 1..Len(chs) |-> cvmStructFunctionCache(c, chs[j], level)])

RECURSIVE stripUnderscores(_, _, _, _)
\* the loop that drops a leading underscore: the j-th name is read, and a
\* stripped name is stored at index i, which advances on a hit only
stripUnderscores(original, names, j, i) ==
  IF j > Len(original) THEN names
  ELSE IF SubSeq(original[j], 1, 1) = "_"
  THEN stripUnderscores(original,
         [names EXCEPT ![i + 1] = From(original[j], 1)], j + 1, i + 1)
  ELSE stripUnderscores(original, names, j + 1, i)

\* the two factories of a constructor, given its parameter names
constructorText(c, parameter_names) ==
  "function M." \o c.spelling \o "(" \o Join(parameter_names, ", ") \o ")"
  \o (IF Len(parameter_names) > 0
      THEN "\n  local res = ffi.new(\"" \o c.spelling \o "\")\n"
           \o Concat([j \in 1..Len(parameter_names) |->
                        "  res." \o parameter_names[j] \o " = "
                        \o parameter_names[j] \o "\n"])
           \o "  return res\n"
      ELSE " return ffi.new(\"" \o c.spelling \o "\") ")
  \o "end\n"
  \o "function M." \o c.spelling \o "Ptr(" \o Join(parameter_names, ", ")
  \o ")"
  \o (IF Len(parameter_names) > 0 THEN ""
      ELSE " return ffi.new(\"" \o c.spelling \o "[1]\") ")
  \o "end\n"

\* parameter_names after the loop that drops leading underscores
strippedNames(parameter_names) ==
  stripUnderscores(parameter_names, parameter_names, 1, 0)

_generateLuaConstructor(c) ==
  constructorText(
    c, strippedNames(getCFunctionSignature(c, "", "", FALSE).parameter_names))

\* what the child ch of struct c adds to the Lua text of the struct
lvmStructChild(c, ch) ==
  IF IsSkipped(ch) \/ IsTemplate(ch) THEN ""
  ELSE IF IsFunction(ch) /\ Find(ch.spelling, "operator") = -1
  THEN _generateLuaVMFunction(ch, c.spelling \o "_",
                              "imgui_" \o c.spelling \o "_",
                              c.spelling \o "_ctx")
  ELSE IF ch.kind = "CONSTRUCTOR"
  THEN IF ch.spelling \in skip_constructors THEN ""
       ELSE _generateLuaConstructor(ch)
  ELSE ""

\* struct member functions
_generateLVMStruct(c) ==
  LET chs == get_children(c)
  IN (IF debug
      THEN "--=== struct " \o c.spelling \o " === " \o c.usr \o "\n"
      ELSE "--=== struct " \o c.spelling \o " ===\n")
     \o Concat([j \in 1..Len(chs) |-> lvmStructChild(c, chs[j])])
     \o "--===\n"

\* what the child ch of struct c adds to the host text of the struct
cHostStructChild(c, ch) ==
  IF IsSkipped(ch) \/ IsTemplate(ch) THEN ""
  ELSE IF IsFunction(ch) /\ Find(ch.spelling, "operator") = -1
  THEN _generateCHostFunction(ch, "imgui_" \o c.spelling \o "_",
                              c.spelling \o "_ctx->", c.spelling \o "_ctx",
                              c.type.spelling)
  ELSE ""

_generateCHostStruct(c) ==
  LET chs == get_children(c)
  IN Concat([j \in 1..Len(chs) |-> cHostStructChild(c, chs[j])])

\* the text of an enum constant: its name and, with an UNEXPOSED_EXPR child,
\* the source text of the first such child
enumConstant(ch) ==
  LET cas == get_children(ch)
      hits == { i \in 1..Len(cas) : cas[i].kind = "UNEXPOSED_EXPR" }
      value == IF hits = {} THEN ""
               ELSE " = " \o getContent(
                      cas[CHOOSE i \in hits : \A j \in hits : i <= j], FALSE)
  IN "  " \o ch.spelling \o value

_generateCVMEnum(c) ==
  LET decls == SelectSeq(get_children(c),
                         LAMBDA ch : ch.kind = "ENUM_CONSTANT_DECL")
      constants == [j \in 1..Len(decls) |-> enumConstant(decls[j])]
  IN IF Len(constants) = 0
     THEN "typedef " \o get_canonical(c.enum_type).spelling \o " "
          \o c.spelling \o ";\n"
     ELSE getCursorDebug(c, "// ") \o "\n" \o "typedef enum {\n"
          \o Join(constants, ",\n") \o "\n} " \o c.spelling \o ";\n"

\* the Lua binding of an enum constant, its ImGui prefix dropped
lvmEnumConstant(ch) ==
  LET lname == IF Upto(ch.spelling, 5) = "ImGui" THEN From(ch.spelling, 5)
               ELSE ch.spelling
  IN "M." \o lname \o " = C." \o ch.spelling \o "\n"

_generateLVMEnum(c) ==
  LET decls == SelectSeq(get_children(c),
                         LAMBDA ch : ch.kind = "ENUM_CONSTANT_DECL")
  IN "--=== enum " \o c.spelling \o " ===\n"
     \o Concat([j \in 1..Len(decls) |-> lvmEnumConstant(decls[j])])
     \o "--===\n"

-----------------------------------------------------------------------------
(* Overload Resolver.                                                      *)

\* the rename of the i-th function (0-based) of an overload group
overloadName(f, i) == f.spelling \o ToString(i + 1)

\* fctCache[uName].append(c) unless a function with c's USR is in the list
addToGroup(fctCache, uName, c) ==
  LET list == IF DictHas(fctCache, uName) THEN DictGet(fctCache, uName)
              ELSE <<>>
      contained == \E i \in 1..Len(list) : list[i].usr = c.usr
  IN DictSet(fctCache, uName, IF contained THEN list ELSE Append(list, c))

RECURSIVE _rec_detectOverloads(_, _, _, _)
RECURSIVE recDetectChildren(_, _, _, _, _)

\* the loop over c.get_children(), from the j-th child on
recDetectChildren(fctCache, chs, j, level, prefix) ==
  IF j > Len(chs) THEN fctCache
  ELSE CHOOSE r \in
         { recDetectChildren(after, chs, j + 1, level, prefix) :
             after \in { _rec_detectOverloads(fctCache, chs[j], level,
                                              prefix) } } : TRUE

_rec_detectOverloads(fctCache, c, level, prefix) ==
  IF c.kind \in {"STRUCT_DECL", "TRANSLATION_UNIT", "NAMESPACE"}
  THEN recDetectChildren(fctCache, get_children(c), 1, level,
                         prefix \o c.spelling \o "_")
  ELSE IF IsFunction(c)
  THEN IF Find(c.spelling, "operator") = 0 THEN fctCache
       ELSE recDetectChildren(addToGroup(fctCache, prefix \o c.spelling, c),
                              get_children(c), 1, level, prefix)
  ELSE recDetectChildren(fctCache, get_children(c), 1, level, prefix)

RECURSIVE renameGroupCounting(_, _, _)
\* an inner loop that numbers the functions through the whole rename table
\* instead of within their group
renameGroupCounting(renames, v, i) ==
  IF i >= Len(v) THEN renames
  ELSE CHOOSE r \in
         { renameGroupCounting(after, v, i + 1) :
             after \in { (v[i + 1].usr :>
                            v[i + 1].spelling
                              \o ToString(Cardinality(DOMAIN renames) + 1))
                         @@ renames } } : TRUE

RECURSIVE renameGroup(_, _, _)
\* the inner loop: every function of the list v, from the i-th (0-based) on
renameGroup(renames, v, i) ==
  IF i >= Len(v) THEN renames
  ELSE CHOOSE r \in
         { renameGroup(after, v, i + 1) :
             after \in { (v[i + 1].usr :> overloadName(v[i + 1], i))
                         @@ renames } } : TRUE

RECURSIVE renameGroups(_, _, _)
\* the outer loop over the groups left in fctCache, from the g-th on
renameGroups(renames, fctCache, g) ==
  IF g > Len(fctCache) THEN renames
  ELSE CHOOSE r \in
         { renameGroups(after, fctCache, g + 1) :
             after \in { renameGroup(renames, fctCache[g].v, 0) } } : TRUE

\* the groups left in fctCache once those of one function are deleted, in
\* the order of insertion
overloadGroups(c) ==
  SelectSeq(_rec_detectOverloads(<<>>, c, 0, ""), LAMBDA e : Len(e.v) # 1)

\* self.functionRenames after detectOverloads(c), fctCache.items() yielding
\* the groups in the given order: the order of insertion from Python 3.7
\* on, an order the language leaves open before
detectOverloads(c, order) ==
  renameGroups(functionRenames,
               [g \in 1..Len(overloadGroups(c)) |->
                  overloadGroups(c)[order[g]]], 1)

-----------------------------------------------------------------------------
(* Headers: the cursor trees a run is given.                               *)

Kw(s) == [kind |-> "KEYWORD", spelling |-> s]
Id(s) == [kind |-> "IDENTIFIER", spelling |-> s]
Pu(s) == [kind |-> "PUNCTUATION", spelling |-> s]
Li(s) == [kind |-> "LITERAL", spelling |-> s]

TInt == Ty("INT", "int")
TFloat == Ty("FLOAT", "float")
TBool == Ty("BOOL", "bool")
TCharPtr == Ty("POINTER", "const char *")
TBoolPtr == Ty("POINTER", "bool *")
TCtxPtr == Ty("POINTER", "ImGuiContext *")
TVec2 == Ty("RECORD", "ImVec2")
TVec4 == Ty("RECORD", "ImVec4")
TVec2Ref == Ty("LVALUEREFERENCE", "const ImVec2 &")
TFlags == TyDef("ImGuiWindowFlags", TInt)
TTextureID == TyDef("ImTextureID", Ty("POINTER", "void *"))
TSizeT == TyDef("size_t", Ty("ULONG", "unsigned long"))
TCallback == Ty("POINTER", "void (*)(int)")
TFloat4 == Ty("CONSTANTARRAY", "float [4]")

\* a parameter: its type, the tokens of the type, its name and the tokens of
\* its default argument (none when empty)
Parm(type, typeToks, name, defToks) ==
  [Cursor("PARM_DECL", name, "") EXCEPT
     !.type = type,
     !.tokens = typeToks \o (IF name = "" THEN <<>> ELSE <<Id(name)>>)
                \o (IF defToks = <<>> THEN <<>> ELSE <<Pu("=")>> \o defToks)]

RECURSIVE parmTokens(_)
parmTokens(params) ==
  IF Len(params) = 0 THEN <<>>
  ELSE IF Len(params) = 1 THEN params[1].tokens
  ELSE params[1].tokens \o <<Pu(",")>> \o parmTokens(Tail(params))

\* a function, method or constructor declaration and its token stream
Func(kind, usr, ret, retToks, name, params, variadic) ==
  [Cursor(kind, name, usr) EXCEPT
     !.result_type = ret,
     !.args = params,
     !.variadic = variadic,
     !.tokens = retToks \o <<Id(name), Pu("(")>> \o parmTokens(params)
                \o (IF variadic THEN <<Pu(","), Pu("...")>> ELSE <<>>)
                \o <<Pu(")")>>]

Field(type, name) == [Cursor("FIELD_DECL", name, "") EXCEPT !.type = type]

Struct(usr, name, children) ==
  [Cursor("STRUCT_DECL", name, usr) EXCEPT
     !.type = Ty("RECORD", name), !.children = children]

Namespace(name, children) ==
  [Cursor("NAMESPACE", name, "c:@N@" \o name) EXCEPT !.children = children]

\* the same declaration inside namespace ImGui
InImGui(f) == [f EXCEPT !.usr = Replace(f.usr, "c:@", "c:@N@ImGui@")]

ParmInt == Parm(TInt, <<Kw("int")>>, "a", <<>>)
ParmFloat == Parm(TFloat, <<Kw("float")>>, "x", <<Li("1.0f")>>)
ParmFmt == Parm(TCharPtr, <<Kw("const"), Kw("char"), Pu("*")>>, "fmt", <<>>)
ParmName == Parm(TCharPtr, <<Kw("const"), Kw("char"), Pu("*")>>, "name", <<>>)
ParmOpen == Parm(TBoolPtr, <<Kw("bool"), Pu("*")>>, "p_open", <<Id("NULL")>>)
ParmFlags == Parm(TFlags, <<Id("ImGuiWindowFlags")>>, "flags", <<Li("0")>>)
ParmSize == Parm(TVec2Ref, <<Kw("const"), Id("ImVec2"), Pu("&")>>, "size", <<>>)
ParmSizeOpt ==
  Parm(TVec2Ref, <<Kw("const"), Id("ImVec2"), Pu("&")>>, "size",
       <<Id("ImVec2"), Pu("("), Li("0"), Pu(","), Li("0"), Pu(")")>>)
ParmTex == Parm(TTextureID, <<Id("ImTextureID")>>, "tex", <<>>)
ParmCtx == Parm(TCtxPtr, <<Id("ImGuiContext"), Pu("*")>>, "ctx", <<>>)
ParmEnd == Parm(TInt, <<Kw("int")>>, "end", <<Li("5")>>)
ParmW == Parm(TFloat, <<Kw("float")>>, "w", <<>>)
ParmH == Parm(TFloat, <<Kw("float")>>, "_h", <<>>)

FnDrawInt ==
  Func("FUNCTION_DECL", "c:@F@Draw#I#", TVoid, <<Kw("void")>>, "Draw",
       <<ParmInt>>, FALSE)
FnDrawFloat ==
  Func("FUNCTION_DECL", "c:@F@Draw#f#", TVoid, <<Kw("void")>>, "Draw",
       <<ParmFloat>>, FALSE)
FnDrawName ==
  Func("FUNCTION_DECL", "c:@F@Draw#*1C#", TVoid, <<Kw("void")>>, "Draw",
       <<ParmName>>, FALSE)
FnGetSize ==
  Func("FUNCTION_DECL", "c:@F@GetSize#&1$@S@ImVec2#*v#", TVec2,
       <<Id("ImVec2")>>, "GetSize", <<ParmSize, ParmTex>>, FALSE)
FnGetColor ==
  Func("FUNCTION_DECL", "c:@F@GetColor#I#", TVec4, <<Id("ImVec4")>>,
       "GetColor", <<ParmEnd>>, FALSE)
FnText ==
  Func("FUNCTION_DECL", "c:@F@Text#*1C.#", TVoid, <<Kw("void")>>, "Text",
       <<ParmFmt>>, TRUE)
FnFormat ==
  Func("FUNCTION_DECL", "c:@F@Format#*1C.#", TInt, <<Kw("int")>>, "Format",
       <<ParmFmt>>, TRUE)
FnBegin ==
  Func("FUNCTION_DECL", "c:@F@Begin#*1C#*b#I#", TBool, <<Kw("bool")>>,
       "Begin", <<ParmName, ParmOpen, ParmFlags>>, FALSE)
FnButton ==
  Func("FUNCTION_DECL", "c:@F@Button#*1C#&1$@S@ImVec2#", TBool,
       <<Kw("bool")>>, "Button", <<ParmName, ParmSizeOpt>>, FALSE)
FnSetCurrent ==
  Func("FUNCTION_DECL", "c:@F@SetCurrent#*$@S@ImGuiContext#I#", TVoid,
       <<Kw("void")>>, "SetCurrent", <<ParmCtx, ParmInt>>, FALSE)
FnMemAlloc ==
  Func("FUNCTION_DECL", "c:@F@MemAlloc#l#", Ty("POINTER", "void *"),
       <<Kw("void"), Pu("*")>>, "MemAlloc",
       <<Parm(TSizeT, <<Id("size_t")>>, "size", <<>>)>>, FALSE)
FnDestroyContext ==
  Func("FUNCTION_DECL", "c:@F@DestroyContext#*$@S@ImGuiContext#", TVoid,
       <<Kw("void")>>, "DestroyContext", <<ParmCtx>>, FALSE)
FnOperator ==
  Func("FUNCTION_DECL", "c:@F@operator+#&1$@S@ImVec2#S0_#", TVec2,
       <<Id("ImVec2")>>, "operator+", <<ParmSize>>, FALSE)
FnElsewhere ==
  [Func("FUNCTION_DECL", "c:@F@printf#*1C.#", TInt, <<Kw("int")>>, "printf",
        <<ParmFmt>>, TRUE) EXCEPT !.in_file = FALSE]

\* struct Point { float x; float y; };
StructPoint ==
  Struct("c:@S@Point", "Point", <<Field(TFloat, "x"), Field(TFloat, "y")>>)

\* a struct with fields, a nested union and struct, constructors and methods
StructRect ==
  Struct("c:@S@Rect", "Rect", <<
    Field(TFloat, "w"),
    Field(TFloat, "h"),
    Field(TFloat4, "MemFree"),
    Field(TCallback, "OnDraw"),
    [Cursor("UNION_DECL", "", "c:@S@Rect@Ua") EXCEPT
       !.children = <<Field(TInt, "i"), Field(TFloat, "f")>>],
    Struct("c:@S@Rect@S@ImDrawChannel", "ImDrawChannel",
           <<Field(TInt, "n"),
             Func("CXX_METHOD", "c:@S@Rect@S@ImDrawChannel@F@Draw#I#", TVoid,
                  <<Kw("void")>>, "Draw", <<ParmInt>>, FALSE)>>),
    Func("CONSTRUCTOR", "c:@S@Rect@F@Rect#", TVoid, <<>>, "Rect", <<>>,
         FALSE),
    Func("CONSTRUCTOR", "c:@S@Rect@F@Rect#f#f#", TVoid, <<>>, "Rect",
         <<ParmW, ParmH>>, FALSE),
    Func("CXX_METHOD", "c:@S@Rect@F@Draw#I#", TVoid, <<Kw("void")>>, "Draw",
         <<ParmInt>>, FALSE),
    Func("CXX_METHOD", "c:@S@Rect@F@Draw#f#", TVoid, <<Kw("void")>>, "Draw",
         <<ParmFloat>>, FALSE),
    Func("CXX_METHOD", "c:@S@Rect@F@GetSize#", TVec2, <<Id("ImVec2")>>,
         "GetSize", <<>>, FALSE),
    Func("CXX_METHOD", "c:@S@Rect@F@appendf#*1C.#", TInt, <<Kw("int")>>,
         "appendf", <<ParmFmt>>, TRUE),
    Func("CXX_METHOD", "c:@S@Rect@F@MemAlloc#l#", TVoid, <<Kw("void")>>,
         "MemAlloc", <<ParmInt>>, FALSE),
    Func("CXX_METHOD", "c:@S@Rect@F@operator==#&1$@S@Rect#1", TBool,
         <<Kw("bool")>>, "operator==", <<>>, FALSE) >>)

\* a struct whose constructors are not emitted
StructFilter ==
  Struct("c:@S@ImGuiTextFilter", "ImGuiTextFilter", <<
    Field(TInt, "CountGrep"),
    Func("CONSTRUCTOR", "c:@S@ImGuiTextFilter@F@ImGuiTextFilter#*1C#", TVoid,
         <<>>, "ImGuiTextFilter", <<ParmName>>, FALSE) >>)

\* struct ImDrawList;
StructForward ==
  [Struct("c:@S@ImDrawList", "ImDrawList", <<>>) EXCEPT
     !.is_definition = FALSE]

\* struct ImVec2 { float x, y; }; is in skip_usrs
StructVec2 ==
  Struct("c:@S@ImVec2", "ImVec2", <<Field(TFloat, "x"), Field(TFloat, "y")>>)

TypedefFlags ==
  [Cursor("TYPEDEF_DECL", "ImGuiWindowFlags", "c:@T@ImGuiWindowFlags") EXCEPT
     !.content = "typedef int ImGuiWindowFlags"]

EnumConst(name, children) ==
  [Cursor("ENUM_CONSTANT_DECL", name, "c:@E@ImGuiCol_@" \o name) EXCEPT
     !.children = children]

Expr(kind, text) == [Cursor(kind, "", "") EXCEPT !.content = text]

EnumCol ==
  [Cursor("ENUM_DECL", "ImGuiCol_", "c:@E@ImGuiCol_") EXCEPT
     !.enum_type = Ty("UINT", "unsigned int"),
     !.children = <<
       EnumConst("ImGuiCol_Text", <<>>),
       EnumConst("ImGuiCol_Border", <<Expr("UNEXPOSED_EXPR", "ImGuiCol_Text")>>),
       EnumConst("ImGuiCol_COUNT", <<Expr("INTEGER_LITERAL", "8")>>) >>]

\* enum ImGuiKey : int;
EnumForward ==
  [Cursor("ENUM_DECL", "ImGuiKey", "c:@E@ImGuiKey") EXCEPT
     !.enum_type = TyDef("ImS32", TInt)]

\* template<typename T> struct ImVector { int size(); };
TemplateVector ==
  [Cursor("CLASS_TEMPLATE", "ImVector", "c:@ST>1#T@ImVector") EXCEPT
     !.children = <<Func("CXX_METHOD", "c:@ST>1#T@ImVector@F@size#", TInt,
                         <<Kw("int")>>, "size", <<>>, FALSE)>>]

\* extern int GImGuiVersion;
VarVersion ==
  [Cursor("VAR_DECL", "GImGuiVersion", "c:@GImGuiVersion") EXCEPT
     !.type = TInt, !.content = "extern int GImGuiVersion"]

\* namespace ImGui { ... }: three overloads, the first declared twice
NsOverloads ==
  Namespace("ImGui", <<InImGui(FnDrawInt), InImGui(FnDrawFloat),
                       InImGui(FnDrawInt), InImGui(FnDrawName)>>)

NsQueries ==
  Namespace("ImGui", <<InImGui(FnGetSize), InImGui(FnGetColor),
                       InImGui(FnBegin), InImGui(FnButton)>>)

NsVariadic ==
  Namespace("ImGui", <<InImGui(FnText), InImGui(FnFormat),
                       InImGui(FnSetCurrent)>>)

NsSkipped ==
  Namespace("ImGui", <<InImGui(FnMemAlloc), InImGui(FnDestroyContext),
                       InImGui(FnOperator), InImGui(FnDrawFloat)>>)

NsTypes ==
  Namespace("ImGui", <<TypedefFlags, EnumCol, EnumForward, StructForward,
                       TemplateVector, VarVersion, StructVec2>>)

\* namespace ImGui { void Reset(int a);
\*                   union Value { int i; float f; void Reset(int a); }; }
NsUnion ==
  Namespace("ImGui", <<
    Func("FUNCTION_DECL", "c:@N@ImGui@F@Reset#I#", TVoid, <<Kw("void")>>,
         "Reset", <<ParmInt>>, FALSE),
    [Cursor("UNION_DECL", "Value", "c:@N@ImGui@U@Value") EXCEPT
       !.type = Ty("RECORD", "Value"),
       !.children = <<
         Field(TInt, "i"), Field(TFloat, "f"),
         Func("CXX_METHOD", "c:@N@ImGui@U@Value@F@Reset#I#", TVoid,
              <<Kw("void")>>, "Reset", <<ParmInt>>, FALSE) >>] >>)

\* what a header may declare at its top level
TopItems == {
  FnDrawInt, FnDrawFloat, FnElsewhere, NsOverloads, NsQueries, NsVariadic,
  NsSkipped, NsTypes, NsUnion, StructPoint, StructRect, StructFilter }

RECURSIVE SeqsUpTo(_, _)
\* the sequences over S of length at most n
SeqsUpTo(S, n) ==
  IF n = 0 THEN { <<>> }
  ELSE LET shorter == SeqsUpTo(S, n - 1)
       IN shorter \cup { Append(q, x) : q \in shorter, x \in S }

\* the translation unit cursor of a header
Header(items) ==
  [Cursor("TRANSLATION_UNIT", "imgui.h", "") EXCEPT !.children = items]

Headers == { Header(items) : items \in SeqsUpTo(TopItems, MaxTop) }

-----------------------------------------------------------------------------
(* generate(): the fixed text around the generated fragments.              *)

luaPrologue ==
  "-- !!!! DO NOT EDIT THIS FILE -- It was automatically generated by tools/imguiUtilities/gen.py at git repo beamng/gameengine -- DO NOT EDIT THIS FILE !!!!\n"
  \o "\nlocal C = ffi.C -- shortcut to prevent lookups all the time\n"
  \o "\nreturn function(M)\n\n"

vmPrologue ==
  "///////////////////////////////////////////////////////////////////////////////\n"
  \o "// this file is used for declaring C types for LuaJIT's FFI. Do not use it in C\n"
  \o "///////////////////////////////////////////////////////////////////////////////\n"
  \o "\n// !!!! DO NOT EDIT THIS FILE -- It was automatically generated by tools/imguiUtilities/gen.py at git repo beamng/gameengine -- DO NOT EDIT THIS FILE !!!!\n"
  \o "\ntypedef struct { float x, y; } ImVec2_C;\n"
  \o "typedef struct { float x, y, z, w; } ImVec4_C;\n\n"

hostPrologue ==
  "// !!!! DO NOT EDIT THIS FILE -- It was automatically generated by tools/imguiUtilities/gen.py at git repo beamng/gameengine -- DO NOT EDIT THIS FILE !!!!\n"
  \o "\n#include \"imguiApiHost.h\"\n"
  \o "extern \"C\" {\n"
  \o "#ifdef BNG_OS_WINDOWS\n"
  \o "#define FFI_EXPORT __declspec(dllexport)\n"
  \o "#else\n"
  \o "#define FFI_EXPORT __attribute__((visibility(\"default\")))\n"
  \o "#endif // BNG_OS_WINDOWS\n\n"

hostEpilogue == "\n\n#undef FFI_EXPORT\n} // extern C\n"

luaEpilogue == "\nend -- global function close\n"

-----------------------------------------------------------------------------
(* The generation run.                                                     *)

NoDecl == Cursor("NONE", "", "")

\* no run of the generator has ended yet
NoRun == <<>>

Init ==
  /\ tu \in Headers
  /\ pc = "start"
  /\ stack = <<>>
  /\ functionRenames = <<>>
  /\ tVMFile = <<>>
  /\ tHostFile = <<>>
  /\ tLuaFile = <<>>
  /\ optDecl = NoDecl
  /\ optResult = <<>>
  /\ previous = NoRun

\* generate() up to its call of _traverse: the three files are opened for
\* writing, which empties them, and get their prologues, and detectOverloads
\* fills the rename table, the groups met in any order
DetectOverloads ==
  /\ pc = "start"
  /\ tLuaFile' = <<luaPrologue>>
  /\ tVMFile' = <<vmPrologue>>
  /\ tHostFile' = <<hostPrologue>>
  /\ \E order \in Permutations(1..Len(overloadGroups(tu))) :
       functionRenames' = detectOverloads(tu, order)
  /\ stack' = <<[c |-> tu, level |-> 0]>>
  /\ pc' = "traverse"
  /\ UNCHANGED <<tu, optDecl, optResult, previous>>

\* the cursor of the innermost pending _traverse call
Top == stack[1]

Visiting == pc = "traverse" /\ stack # <<>>

OtherFile(c) == ~c.in_file

\* _traverse returns at once: the cursor is of another file, skipped or a
\* template
TraverseReturn ==
  /\ Visiting
  /\ OtherFile(Top.c) \/ IsSkipped(Top.c) \/ IsTemplate(Top.c)
  /\ stack' = Tail(stack)
  /\ UNCHANGED <<tu, pc, functionRenames, tVMFile, tHostFile, tLuaFile,
                 optDecl, optResult, previous>>

Passes(c) == ~OtherFile(c) /\ ~IsSkipped(c) /\ ~IsTemplate(c)

\* _traverse of a free function: nothing for an operator, else a fragment in
\* each file
TraverseFunction ==
  /\ Visiting
  /\ Passes(Top.c)
  /\ IsFunction(Top.c)
  /\ IF Find(Top.c.spelling, "operator") = 0
     THEN UNCHANGED <<tVMFile, tHostFile, tLuaFile>>
     ELSE /\ tVMFile' =
               Append(tVMFile, _generateCVMFunction(Top.c, "imgui_", ""))
          /\ tHostFile' =
               Append(tHostFile,
                      _generateCHostFunction(Top.c, "imgui_", "ImGui::", "", ""))
          /\ tLuaFile' =
               Append(tLuaFile,
                      _generateLuaVMFunction(Top.c, "", "imgui_", ""))
  /\ stack' = Tail(stack)
  /\ UNCHANGED <<tu, pc, functionRenames, optDecl, optResult, previous>>

\* _traverse of a typedef: its source text goes to the FFI file
TraverseTypedef ==
  /\ Visiting
  /\ Passes(Top.c)
  /\ Top.c.kind = "TYPEDEF_DECL"
  /\ tVMFile' = Append(tVMFile, getContent(Top.c, FALSE) \o ";\n")
  /\ stack' = Tail(stack)
  /\ UNCHANGED <<tu, pc, functionRenames, tHostFile, tLuaFile, optDecl,
                 optResult, previous>>

\* _traverse of a struct or union: the three struct emitters for a
\* definition, an opaque typedef for a forward declaration
TraverseStruct ==
  /\ Visiting
  /\ Passes(Top.c)
  /\ Top.c.kind \in {"STRUCT_DECL", "UNION_DECL"}
  /\ IF Top.c.is_definition
     THEN /\ tVMFile' = Append(tVMFile, _generateCVMStruct(Top.c, 0))
          /\ tHostFile' = Append(tHostFile, _generateCHostStruct(Top.c))
          /\ tLuaFile' = Append(tLuaFile, _generateLVMStruct(Top.c))
     ELSE /\ tVMFile' = Append(tVMFile, "typedef struct " \o Top.c.spelling
                                        \o " " \o Top.c.spelling \o ";\n")
          /\ UNCHANGED <<tHostFile, tLuaFile>>
  /\ stack' = Tail(stack)
  /\ UNCHANGED <<tu, pc, functionRenames, optDecl, optResult, previous>>

\* _traverse of an enum
TraverseEnum ==
  /\ Visiting
  /\ Passes(Top.c)
  /\ Top.c.kind = "ENUM_DECL"
  /\ tVMFile' = Append(tVMFile, _generateCVMEnum(Top.c))
  /\ tLuaFile' = Append(tLuaFile, _generateLVMEnum(Top.c))
  /\ stack' = Tail(stack)
  /\ UNCHANGED <<tu, pc, functionRenames, tHostFile, optDecl, optResult, previous>>

\* _traverse of the translation unit, a namespace or a cursor of a kind it
\* does not handle: the children are traversed, in order
TraverseChildren ==
  /\ Visiting
  /\ Passes(Top.c)
  /\ ~IsFunction(Top.c)
  /\ Top.c.kind \notin {"TYPEDEF_DECL", "STRUCT_DECL", "UNION_DECL",
                        "ENUM_DECL"}
  /\ LET chs == get_children(Top.c)
     IN stack' = [j \in 1..Len(chs) |-> [c |-> chs[j], level |-> Top.level + 1]]
                 \o Tail(stack)
  /\ UNCHANGED <<tu, pc, functionRenames, tVMFile, tHostFile, tLuaFile,
                 optDecl, optResult, previous>>

\* generate() after _traverse has returned: the epilogues
Finish ==
  /\ pc = "traverse"
  /\ stack = <<>>
  /\ tHostFile' = Append(tHostFile, hostEpilogue)
  /\ tLuaFile' = Append(tLuaFile, luaEpilogue)
  /\ pc' = "done"
  /\ UNCHANGED <<tu, stack, functionRenames, tVMFile, optDecl, optResult, previous>>

Next ==
  \/ DetectOverloads
  \/ TraverseReturn
  \/ TraverseFunction
  \/ TraverseTypedef
  \/ TraverseStruct
  \/ TraverseEnum
  \/ TraverseChildren
  \/ Finish

Spec == Init /\ [][Next]_vars

-----------------------------------------------------------------------------
(* The generator run twice on the same header.                             *)

\* what a finished run has produced
Outputs ==
  [functionRenames |-> functionRenames, tVMFile |-> tVMFile,
   tHostFile |-> tHostFile, tLuaFile |-> tLuaFile]

\* generate() once more on the same header, after a first run has ended:
\* by a new BindingGenerator, whose rename table is empty (main() run again),
\* or by the generator of the first run, whose rename table is still filled;
\* the files of the first run are still there (and are kept aside for
\* comparison)
RunAgain ==
  /\ pc = "done"
  /\ previous = NoRun
  /\ previous' = Outputs
  /\ \E sameGenerator \in BOOLEAN :
       functionRenames' = IF sameGenerator THEN functionRenames ELSE <<>>
  /\ stack' = <<>>
  /\ pc' = "start"
  /\ UNCHANGED <<tu, tVMFile, tHostFile, tLuaFile, optDecl, optResult>>

NextTwice ==
  \/ DetectOverloads
  \/ TraverseReturn
  \/ TraverseFunction
  \/ TraverseTypedef
  \/ TraverseStruct
  \/ TraverseEnum
  \/ TraverseChildren
  \/ Finish
  \/ RunAgain

SpecTwice == Init /\ [][NextTwice]_vars

-----------------------------------------------------------------------------
(* getLuaFunctionOptionalParams on its own: one call on a declaration.     *)

\* number of parameters of a declaration given to the extractor
MaxOptParams == 2

\* int count = 3
ParmCount == Parm(TInt, <<Kw("int")>>, "count", <<Li("3")>>)

\* int n = count: the default names a variable of the enclosing scope
ParmUsesCount == Parm(TInt, <<Kw("int")>>, "n", <<Id("count")>>)

\* int m = Max((1 + 2), 3): commas and parentheses inside the default
ParmNested ==
  Parm(TInt, <<Kw("int")>>, "m",
       <<Id("Max"), Pu("("), Pu("("), Li("1"), Pu("+"), Li("2"), Pu(")"),
         Pu(","), Li("3"), Pu(")")>>)

OptParms == { ParmInt, ParmEnd, ParmName, ParmSizeOpt, ParmOpen, ParmCount,
              ParmUsesCount, ParmNested }

\* the parameter lists: no two parameters of a list share a name
OptParamLists ==
  { ps \in SeqsUpTo(OptParms, MaxOptParams) :
      \A i, j \in 1..Len(ps) : ps[i].spelling = ps[j].spelling => i = j }

\* void Resize(...); and void count(...);
OptDecls ==
  { Func("FUNCTION_DECL", "c:@F@" \o name, TVoid, <<Kw("void")>>, name, ps,
         FALSE) : name \in {"Resize", "count"}, ps \in OptParamLists }

InitOpt ==
  /\ tu = Header(<<>>)
  /\ pc = "opt"
  /\ stack = <<>>
  /\ functionRenames = <<>>
  /\ tVMFile = <<>>
  /\ tHostFile = <<>>
  /\ tLuaFile = <<>>
  /\ optDecl \in OptDecls
  /\ optResult = <<>>
  /\ previous = NoRun

\* parameter_opt = getLuaFunctionOptionalParams(c)
ExtractOptional ==
  /\ pc = "opt"
  /\ optResult' = getLuaFunctionOptionalParams(optDecl)
  /\ pc' = "optdone"
  /\ UNCHANGED <<tu, stack, functionRenames, tVMFile, tHostFile, tLuaFile,
                 optDecl, previous>>

NextOpt == ExtractOptional

SpecOpt == InitOpt /\ [][NextOpt]_vars

-----------------------------------------------------------------------------
(* getLuaFunctionOptionalParams on the declarations of a function with one *)
(* float or double parameter whose default is a decimal literal.           *)

\* the most digits after the decimal point of a literal
MaxFrac == 3

TDouble == Ty("DOUBLE", "double")

IntParts == {"0", "1", "10"}

FracParts == {"", ".0", ".5", ".05", ".25", ".00", ".50", ".005"}

\* 1  1.0  1.0f  1.05f ...: the suffix f needs a decimal point
FloatLiterals ==
  { i \o f \o sfx : i \in IntParts, f \in FracParts, sfx \in {"", "f"} }
    \ { i \o "f" : i \in IntParts }

\* the tokens of a default: the literal, alone or after a sign
FloatDefaults ==
  { sign \o <<Li(l)>> : sign \in {<<>>, <<Pu("-")>>, <<Pu("+")>>}, l \in FloatLiterals }

\* void Resize(float x = 1.05f); void Resize(double x = -0.5); ...
FloatDecls ==
  { Func("FUNCTION_DECL", "c:@F@Resize", TVoid, <<Kw("void")>>, "Resize",
         <<Parm(t, <<Kw(t.spelling)>>, "x", d)>>, FALSE) :
      t \in {TFloat, TDouble}, d \in FloatDefaults }

InitFloat ==
  /\ tu = Header(<<>>)
  /\ pc = "opt"
  /\ stack = <<>>
  /\ functionRenames = <<>>
  /\ tVMFile = <<>>
  /\ tHostFile = <<>>
  /\ tLuaFile = <<>>
  /\ optDecl \in FloatDecls
  /\ optResult = <<>>
  /\ previous = NoRun

SpecFloat == InitFloat /\ [][NextOpt]_vars

-----------------------------------------------------------------------------
(* What the properties below are stated with.                              *)

RECURSIVE Flatten(_)
\* the sequences of a sequence, one after the other
Flatten(seqs) ==
  IF Len(seqs) = 0 THEN <<>> ELSE seqs[1] \o Flatten(Tail(seqs))

Contains(s, sub) == Find(s, sub) >= 0

\* the 0-based indices at which sub occurs in s
Occurrences(s, sub) ==
  { i \in 0..(Len(s) - Len(sub)) : SubSeq(s, i + 1, i + Len(sub)) = sub }

\* the text of s from index i up to the next occurrence of stop
Region(s, i, stop) == Upto(From(s, i), Find(From(s, i), stop))

VMText == Concat(tVMFile)
HostText == Concat(tHostFile)
LuaText == Concat(tLuaFile)

RECURSIVE FunctionDecls(_, _)
\* the non-operator function and method declarations below cursor c in
\* traversal order, each with its scope-qualified name as the specification
\* defines it (section 4.2): the names of the translation unit, namespaces,
\* structs and unions around it, and its own. _rec_detectOverloads (line
\* 691) leaves the unions out.
FunctionDecls(c, prefix) ==
  IF IsFunction(c)
  THEN IF StartsWith(c.spelling, "operator") THEN <<>>
       ELSE <<[name |-> prefix \o c.spelling, c |-> c]>>
  ELSE Flatten([j \in 1..Len(c.children) |->
                  FunctionDecls(c.children[j],
                                IF c.kind \in {"STRUCT_DECL", "UNION_DECL",
                                               "TRANSLATION_UNIT",
                                               "NAMESPACE"}
                                THEN prefix \o c.spelling \o "_" ELSE prefix)])

\* the USRs of the group of declarations that share the name of ds[i]
GroupOf(ds, i) == { ds[j].c.usr : j \in { k \in 1..Len(ds) : ds[k].name = ds[i].name } }

\* the rank (from 1) of ds[i] in its group, in discovery order: one more than
\* the number of other members discovered before the first declaration of
\* its USR
RankOf(ds, i) ==
  1 + Cardinality({ ds[j].c.usr : j \in
        { k \in 1..Len(ds) :
            /\ ds[k].name = ds[i].name
            /\ ds[k].c.usr # ds[i].c.usr
            /\ \A m \in 1..k : ~(ds[m].name = ds[i].name
                                 /\ ds[m].c.usr = ds[i].c.usr) } })

OverloadsRenamed(ds) ==
  \A i \in 1..Len(ds) :
    IF Cardinality(GroupOf(ds, i)) >= 2
    THEN /\ ds[i].c.usr \in DOMAIN functionRenames
         /\ functionRenames[ds[i].c.usr]
              = ds[i].c.spelling \o ToString(RankOf(ds, i))
         /\ \A j \in 1..Len(ds) :
              (ds[j].name = ds[i].name /\ ds[j].c.usr # ds[i].c.usr)
                => getFunctionName(ds[j].c) # getFunctionName(ds[i].c)
    ELSE /\ ds[i].c.usr \notin DOMAIN functionRenames
         /\ getFunctionName(ds[i].c) = ds[i].c.spelling

\* every cursor at or below c, parameters left out
RECURSIVE AllDecls(_)
AllDecls(c) ==
  <<c>> \o Flatten([j \in 1..Len(c.children) |-> AllDecls(c.children[j])])

\* the methods of struct c that the three struct emitters write
Methods(c) ==
  SelectSeq(c.children,
            LAMBDA ch : /\ IsFunction(ch)
                        /\ ~Contains(ch.spelling, "operator")
                        /\ ~IsSkipped(ch))

RECURSIVE Emitted(_)
\* the functions and methods a run emits at or below cursor c, in order, each
\* with the name of its struct ("" for a free function)
Emitted(c) ==
  IF ~Passes(c) THEN <<>>
  ELSE IF IsFunction(c)
  THEN IF StartsWith(c.spelling, "operator") THEN <<>>
       ELSE <<[f |-> c, struct |-> ""]>>
  ELSE IF c.kind \in {"STRUCT_DECL", "UNION_DECL"}
  THEN IF c.is_definition
       THEN [j \in 1..Len(Methods(c)) |->
               [f |-> Methods(c)[j], struct |-> c.spelling]]
       ELSE <<>>
  ELSE IF c.kind \in {"TYPEDEF_DECL", "ENUM_DECL"} THEN <<>>
  ELSE Flatten([j \in 1..Len(c.children) |-> Emitted(c.children[j])])

RECURSIVE TraversedStructs(_)
\* the struct definitions a run hands to the struct emitters
TraversedStructs(c) ==
  IF ~Passes(c) \/ IsFunction(c) \/ c.kind \in {"TYPEDEF_DECL", "ENUM_DECL"}
  THEN <<>>
  ELSE IF c.kind \in {"STRUCT_DECL", "UNION_DECL"}
  THEN IF c.is_definition THEN <<c>> ELSE <<>>
  ELSE Flatten([j \in 1..Len(c.children) |-> TraversedStructs(c.children[j])])

\* the constructors of struct c that the constructor emitter is called for
EmittedConstructors(c) ==
  SelectSeq(c.children,
            LAMBDA ch : /\ ch.kind = "CONSTRUCTOR"
                        /\ ~IsSkipped(ch)
                        /\ ch.spelling \notin skip_constructors)

\* the prefix of the names of a function's bindings
StructPrefix(e) == IF e.struct = "" THEN "" ELSE e.struct \o "_"

\* the name of the C function of an emitted function
CName(e) == "imgui_" \o StructPrefix(e) \o getFunctionName(e.f)

\* the name of the Lua wrapper of an emitted function, after "M."
LuaName(e) == StructPrefix(e) \o getFunctionName(e.f)

\* the widened return type of a function, "" when its type is not widened
Widened(f) ==
  IF effectiveReturnType(f).spelling = "ImVec2" THEN "ImVec2_C"
  ELSE IF effectiveReturnType(f).spelling \in {"ImVec4", "ImColor"}
  THEN "ImVec4_C"
  ELSE ""

\* what the emitters would write for a declaration d: its mark in an output
SkipMarker(d) ==
  IF d.kind = "FIELD_DECL" THEN getCVarStr(d, FALSE) \o ";"
  ELSE IF d.kind \in {"STRUCT_DECL", "UNION_DECL"}
  THEN "struct " \o d.spelling \o " "
  ELSE IF IsFunction(d) \/ d.kind = "CONSTRUCTOR" THEN d.spelling \o "("
  ELSE d.spelling

NoSkippedFragment(ds, vm, host, lua) ==
  \A i \in 1..Len(ds) :
    IsSkipped(ds[i]) =>
      /\ ~Contains(vm, SkipMarker(ds[i]))
      /\ ~Contains(host, SkipMarker(ds[i]))
      /\ ~Contains(lua, SkipMarker(ds[i]))

FFIWidened(es, vm, host) ==
  \A i \in 1..Len(es) :
    Widened(es[i].f) # "" =>
      /\ Contains(host, "FFI_EXPORT " \o Widened(es[i].f) \o " "
                        \o CName(es[i]) \o "(")
      /\ Contains(vm, Widened(es[i].f) \o " " \o CName(es[i]) \o "(")

\* whether the declaration's tokens hold the identifier name with '=' next
HasDefault(token, name) ==
  \E i \in 1..(Len(token) - 1) :
    token[i] = Id(name) /\ token[i + 1] = Pu("=")

\* the number of '(' less the number of ')' among tokens a to b
Depth(token, a, b) ==
  Cardinality({ k \in a..b : token[k] = Pu("(") })
    - Cardinality({ k \in a..b : token[k] = Pu(")") })

\* the index of the token that ends the default starting at index a: the
\* first ',' or ')' at nesting depth 0
DefaultEnd(token, a) ==
  CHOOSE e \in a..Len(token) :
    /\ token[e] \in {Pu(","), Pu(")")} /\ Depth(token, a, e - 1) = 0
    /\ \A d \in a..(e - 1) :
         ~(token[d] \in {Pu(","), Pu(")")} /\ Depth(token, a, d - 1) = 0)

\* the text of tokens a to b
TokenText(token, a, b) ==
  Concat([k \in 1..(b - a + 1) |-> token[a + k - 1].spelling])

\* the text of the default of the parameter called name
DefaultText(token, name) ==
  TokenText(token,
            2 + CHOOSE i \in 1..(Len(token) - 1) :
                  token[i] = Id(name) /\ token[i + 1] = Pu("="),
            DefaultEnd(token,
                       2 + CHOOSE i \in 1..(Len(token) - 1) :
                             token[i] = Id(name) /\ token[i + 1] = Pu("="))
              - 1)

DefaultsRecovered(c, parameter_opt) ==
  \A j \in 1..Len(c.args) :
    IF HasDefault(c.tokens, c.args[j].spelling)
    THEN /\ DictHas(parameter_opt, luaParameterSpelling(c.args[j], TRUE))
         /\ DictGet(parameter_opt, luaParameterSpelling(c.args[j], TRUE))
              = luaifyValue(c.args[j],
                            DefaultText(c.tokens, c.args[j].spelling)).ret
    ELSE ~DictHas(parameter_opt, luaParameterSpelling(c.args[j], TRUE))

\* a parameter of pointer type: a pointer, a reference, or a typedef of one
IsPointerParam(p) ==
  \/ p.type.kind \in {"POINTER", "LVALUEREFERENCE"}
  \/ p.type.kind = "TYPEDEF" /\ get_canonical(p.type).kind = "POINTER"

\* the nil-check of parameter p of the emitted function e
NilCheck(e, p) ==
  ptrCheckLine(e.f, [k |-> luaParameterSpelling(p, TRUE),
                     v |-> p.type.spelling])

\* the forwarding call of the wrapper of e, up to its arguments
ForwardingCall(e) == "C." \o CName(e) \o "("

NilChecked(es, lua) ==
  \A i \in 1..Len(es) :
    \A j \in 1..Len(es[i].f.args) :
      IF HasDefault(es[i].f.tokens, es[i].f.args[j].spelling)
      THEN ~Contains(lua, NilCheck(es[i], es[i].f.args[j]))
      ELSE IsPointerParam(es[i].f.args[j]) =>
             /\ Contains(lua, NilCheck(es[i], es[i].f.args[j]))
             /\ Contains(From(lua, Find(lua, NilCheck(es[i],
                                                      es[i].f.args[j]))),
                         ForwardingCall(es[i]))

\* the guard or the comment of a parameter called x whose default converts
\* to v
DefaultGuard(x, v) ==
  IF v = "nil" THEN "  -- " \o x \o " is optional and can be nil\n"
  ELSE "  if " \o x \o " == nil then " \o x \o " = " \o v \o " end\n"

DefaultsGuarded(es, lua) ==
  \A i \in 1..Len(es) :
    \A j \in 1..Len(es[i].f.args) :
      HasDefault(es[i].f.tokens, es[i].f.args[j].spelling) =>
        Contains(lua,
                 DefaultGuard(
                   luaParameterSpelling(es[i].f.args[j], TRUE),
                   luaifyValue(es[i].f.args[j],
                               DefaultText(es[i].f.tokens,
                                           es[i].f.args[j].spelling)).ret))

\* the parameter list that mirrors the C signature of emitted function e
MirrorList(e) ==
  (IF e.struct = "" THEN <<>> ELSE <<e.struct \o "_ctx">>)
  \o [j \in 1..Len(e.f.args) |-> luaParameterSpelling(e.f.args[j], TRUE)]
  \o (IF e.f.variadic THEN <<"...">> ELSE <<>>)

ParametersMirrored(es, lua) ==
  \A i \in 1..Len(es) :
    /\ Contains(lua, "function M." \o LuaName(es[i]) \o "("
                     \o Join(MirrorList(es[i]), ", ") \o ") ")
    /\ Contains(lua, ForwardingCall(es[i])
                     \o Join(MirrorList(es[i]), ", ") \o ")")

\* every function of lua whose text starts with head has want in its body
BodiesHave(lua, head, want) ==
  /\ Occurrences(lua, head) # {}
  /\ \A i \in Occurrences(lua, head) :
       Contains(Region(lua, i, "end\n"), want)

FactoriesOf(name, lua) ==
  /\ BodiesHave(lua, "function M." \o name \o "(",
                "ffi.new(\"" \o name \o "\")")
  /\ BodiesHave(lua, "function M." \o name \o "Ptr(",
                "return ffi.new(\"" \o name \o "[1]\")")

ConstructorsHaveFactories(ss, lua) ==
  \A i \in 1..Len(ss) :
    \A j \in 1..Len(EmittedConstructors(ss[i])) :
      FactoriesOf(EmittedConstructors(ss[i])[j].spelling, lua)

\* the fields of struct c, in declaration order
Fields(c) == SelectSeq(c.children, LAMBDA ch : ch.kind = "FIELD_DECL")

HasConstructor(c) == \E j \in 1..Len(c.children) : c.children[j].kind = "CONSTRUCTOR"

\* the text of the FFI declaration of struct c, from its opening line on
StructText(c, vm) ==
  From(vm, Find(vm, "typedef struct " \o c.spelling \o " {\n"))

FieldsInOrder(fs, text) ==
  \A i, j \in 1..Len(fs) :
    /\ Contains(text, getCVarStr(fs[i], FALSE) \o ";")
    /\ i < j => Find(text, getCVarStr(fs[i], FALSE) \o ";")
                  < Find(text, getCVarStr(fs[j], FALSE) \o ";")

PlainStructsHaveFactories(ss, vm, lua) ==
  \A i \in 1..Len(ss) :
    (ss[i].kind = "STRUCT_DECL" /\ Len(Fields(ss[i])) > 0
       /\ ~HasConstructor(ss[i])) =>
      /\ Contains(vm, "typedef struct " \o ss[i].spelling \o " {\n")
      /\ FieldsInOrder(Fields(ss[i]), StructText(ss[i], vm))
      /\ FactoriesOf(ss[i].spelling, lua)
      /\ Contains(lua, "function M." \o ss[i].spelling \o "()")
      /\ Contains(lua, "function M." \o ss[i].spelling \o "Ptr()")

\* the host export of emitted function e: its text up to the closing brace
ExportText(e, host) ==
  Region(host, Find(host, " " \o CName(e) \o "("), "}\n\n")

\* in the export text r the call of target is between va_start and va_end,
\* passes args last, and no return comes before va_end
Bracketed(r, target) ==
  /\ Contains(r, "va_start(args, ")
  /\ Contains(r, target)
  /\ Contains(r, "va_end(args);")
  /\ Find(r, "va_start(args, ") < Find(r, target)
  /\ Contains(Region(r, Find(r, target), ";"), "args)")
  /\ Find(r, target) < Find(r, "va_end(args);")
  /\ Contains(r, "return ") => Find(r, "va_end(args);") < Find(r, "return ")

VariadicsBracketed(es, host) ==
  \A i \in 1..Len(es) :
    es[i].f.variadic =>
      Bracketed(ExportText(es[i], host), es[i].f.spelling \o "V(")

RECURSIVE TraversedEnums(_)
\* the enums a run hands to the enum emitters
TraversedEnums(c) ==
  IF ~Passes(c) \/ IsFunction(c)
     \/ c.kind \in {"TYPEDEF_DECL", "STRUCT_DECL", "UNION_DECL"}
  THEN <<>>
  ELSE IF c.kind = "ENUM_DECL" THEN <<c>>
  ELSE Flatten([j \in 1..Len(c.children) |-> TraversedEnums(c.children[j])])

\* the constants of enum c, in declaration order
Constants(c) ==
  SelectSeq(c.children, LAMBDA ch : ch.kind = "ENUM_CONSTANT_DECL")

\* a constant as the source declares it: its name and, when it has an
\* initializer expression (of any kind), " = " and the expression's text
DeclaredConstant(ch) ==
  IF Len(ch.children) = 0 THEN "  " \o ch.spelling
  ELSE "  " \o ch.spelling \o " = " \o Strip(ch.children[1].content)

\* the C enum that lists the constants cs as declared
DeclaredEnum(name, cs) ==
  "typedef enum {\n"
  \o Join([j \in 1..Len(cs) |-> DeclaredConstant(cs[j])], ",\n")
  \o "\n} " \o name \o ";\n"

EnumsFaithful(es, vm) ==
  \A i \in 1..Len(es) :
    IF Len(Constants(es[i])) = 0
    THEN Contains(vm, "typedef " \o get_canonical(es[i].enum_type).spelling
                      \o " " \o es[i].spelling \o ";\n")
    ELSE Contains(vm, DeclaredEnum(es[i].spelling, Constants(es[i])))


\* the value of a decimal digit
Digit(ch) == CHOOSE d \in 0..9 : ToString(d) = ch

IsDigits(s) == \A i \in 1..Len(s) : SubSeq(s, i, i) \in { ToString(d) : d \in 0..9 }

RECURSIVE Number(_)
\* the number a string of digits denotes, 0 for the empty string
Number(s) ==
  IF Len(s) = 0 THEN 0
  ELSE 10 * Number(Upto(s, Len(s) - 1)) + Digit(SubSeq(s, Len(s), Len(s)))

RECURSIVE Pow10(_)
Pow10(n) == IF n <= 0 THEN 1 ELSE 10 * Pow10(n - 1)

\* a literal without its sign
Unsigned(s) == IF Upto(s, 1) \in {"-", "+"} THEN From(s, 1) ELSE s

\* the digits before and after the decimal point of an unsigned literal
IntDigits(u) == IF Find(u, ".") < 0 THEN u ELSE Upto(u, Find(u, "."))
FracDigits(u) == IF Find(u, ".") < 0 THEN "" ELSE From(u, Find(u, ".") + 1)

\* s is a decimal number: an optional sign, digits, and possibly a decimal
\* point followed by at most MaxFrac digits
IsNumber(s) ==
  /\ Len(IntDigits(Unsigned(s))) > 0
  /\ IsDigits(IntDigits(Unsigned(s)))
  /\ IsDigits(FracDigits(Unsigned(s)))
  /\ Len(FracDigits(Unsigned(s))) <= MaxFrac

\* the value of an unsigned decimal number, in units of 10^-MaxFrac
Magnitude(u) ==
  Number(IntDigits(u)) * Pow10(MaxFrac)
    + Number(FracDigits(u)) * Pow10(MaxFrac - Len(FracDigits(u)))

\* the value of a decimal number, in units of 10^-MaxFrac
Value(s) ==
  IF Upto(s, 1) = "-" THEN 0 - Magnitude(Unsigned(s))
  ELSE Magnitude(Unsigned(s))

\* the C++ literal without its suffix f
WithoutSuffix(s) ==
  IF Len(s) > 0 /\ SubSeq(s, Len(s), Len(s)) = "f" THEN Upto(s, Len(s) - 1)
  ELSE s

\* the Lua text lua denotes the number of the C++ default expression cpp
SameNumber(lua, cpp) ==
  IsNumber(lua) /\ Value(lua) = Value(WithoutSuffix(cpp))

FloatDefaultsPreserved(c, parameter_opt) ==
  \A j \in 1..Len(c.args) :
    (c.args[j].type.kind \in {"FLOAT", "DOUBLE"}
       /\ HasDefault(c.tokens, c.args[j].spelling)) =>
      /\ DictHas(parameter_opt, luaParameterSpelling(c.args[j], TRUE))
      /\ SameNumber(DictGet(parameter_opt,
                            luaParameterSpelling(c.args[j], TRUE)),
                    DefaultText(c.tokens, c.args[j].spelling))


\* the name of a parameter, a leading underscore dropped
WithoutUnderscore(name) ==
  IF Upto(name, 1) = "_" THEN From(name, 1) ELSE name

\* the names of the parameters of constructor c, in declaration order
DeclaredNames(c) ==
  [j \in 1..Len(c.args) |-> WithoutUnderscore(c.args[j].spelling)]

\* the first line of the value factory of struct name with parameters ns
FactoryHead(name, ns) ==
  "function M." \o name \o "(" \o Join(ns, ", ") \o ")\n"

\* body allocates an instance of struct name and assigns each of ns once
AssignsEach(body, name, ns) ==
  /\ Contains(body, "ffi.new(\"" \o name \o "\")")
  /\ \A a \in 1..Len(ns) :
       Cardinality(Occurrences(body, "  res." \o ns[a] \o " = " \o ns[a]
                                     \o "\n")) = 1

\* lua has the value factory of struct name with exactly the parameters ns,
\* no two of them alike, each assigned to the field of its name
ValueFactoryAssigns(name, ns, lua) ==
  /\ \A a, b \in 1..Len(ns) : ns[a] = ns[b] => a = b
  /\ Contains(lua, FactoryHead(name, ns))
  /\ AssignsEach(Region(lua, Find(lua, FactoryHead(name, ns)), "end\n"),
                 name, ns)

ConstructorsAssignFields(ss, lua) ==
  \A i \in 1..Len(ss) :
    \A j \in 1..Len(EmittedConstructors(ss[i])) :
      Len(EmittedConstructors(ss[i])[j].args) >= 1 =>
        ValueFactoryAssigns(EmittedConstructors(ss[i])[j].spelling,
                            DeclaredNames(EmittedConstructors(ss[i])[j]), lua)


\* the number of places of text at which sub occurs
Count(text, sub) == Cardinality(Occurrences(text, sub))

\* every emitted function or method has one host export and one Lua wrapper
\* of its name, and no other emitted declaration has one of the same name
FunctionsUnique(es, host, lua) ==
  \A i \in 1..Len(es) :
    /\ Count(host, " " \o CName(es[i]) \o "(") = 1
    /\ Count(lua, "function M." \o LuaName(es[i]) \o "(") = 1

\* the factories of every struct with an emitted constructor are defined
\* once
FactoriesUnique(ss, lua) ==
  \A i \in 1..Len(ss) :
    Len(EmittedConstructors(ss[i])) > 0 =>
      /\ Count(lua, "function M." \o ss[i].spelling \o "(") = 1
      /\ Count(lua, "function M." \o ss[i].spelling \o "Ptr(") = 1


-----------------------------------------------------------------------------
(* Properties.                                                             *)

\* C1: once detectOverloads has walked the tree, every member of a group of
\* two or more declarations sharing a scope-qualified name (operators left
\* out, one member per USR; the scopes being the translation unit, the
\* namespaces, the structs and the unions) is renamed to its name followed
\* by its rank in discovery order, counted from 1, so the names of a group
\* are pairwise distinct; the one declaration of a group of size 1 is not in
\* the rename table and getFunctionName gives its name unchanged.
C1_OverloadRenaming ==
  pc \in {"traverse", "done"} => OverloadsRenamed(FunctionDecls(tu, ""))

\* C2: skip completeness: a run writes no fragment for a declaration whose
\* USR is in skip_usrs or whose name is in skip_names, wherever it is in the
\* tree (top level, or a field, nested struct or union, constructor or
\* method of a struct), into any of the three outputs.
C2_SkipCompleteness ==
  pc = "done" =>
    NoSkippedFragment(AllDecls(tu), VMText, HostText, LuaText)

\* C3: the FFI declaration of every emitted function or method that returns
\* ImVec2, ImVec4 or ImColor (typedefs resolved) declares the widened return
\* type ImVec2_C or ImVec4_C, as the host export of that name does.
C3_WidenedReturnInDeclaration ==
  pc = "done" => FFIWidened(Emitted(tu), VMText, HostText)

\* C4: getLuaFunctionOptionalParams records a default for exactly the
\* parameters whose identifier is followed by '=' in the token stream, and
\* the default is the text of the tokens after that '=' up to the first ','
\* or ')' at nesting depth 0 (as converted to Lua); a token spelled like the
\* parameter and not followed by '=' is not taken for its declaration.
C4_DefaultRecovery ==
  pc = "optdone" => DefaultsRecovered(optDecl, optResult)

\* C5: the Lua wrapper of every emitted function or method has, for every
\* parameter of pointer type (references and typedefs of pointers included)
\* with no recovered default, a nil-check that names the parameter, the
\* emitted function and the C type, placed before the forwarding call; a
\* parameter with a recovered default gets no nil-check.
C5_PointerNilChecks ==
  pc = "done" => NilChecked(Emitted(tu), LuaText)

\* C6: the Lua wrapper of every emitted function or method has, for every
\* parameter with a recovered default, the guard "if X == nil then X = value
\* end" (a comment naming X when the value is nil), X being the identifier
\* of that parameter in the wrapper's parameter list, whatever the kind of
\* the parameter's type.
C6_DefaultGuardIdentifier ==
  pc = "done" => DefaultsGuarded(Emitted(tu), LuaText)

\* C7: the parameter list of the Lua wrapper of every emitted function or
\* method mirrors the C signature (the receiver context first for a method,
\* one entry per declared parameter whatever its name, "..." last for a
\* variadic function), and the wrapper forwards exactly that list.
C7_ParametersMirrorSignature ==
  pc = "done" => ParametersMirrored(Emitted(tu), LuaText)

\* C8: for every emitted constructor, with or without parameters, the Lua
\* output has the factory M.<Struct> returning ffi.new("<Struct>") and the
\* factory M.<Struct>Ptr returning ffi.new("<Struct>[1]").
C8_ConstructorFactories ==
  pc = "done" => ConstructorsHaveFactories(TraversedStructs(tu), LuaText)

\* C9: for every emitted struct definition with fields and no constructor
\* child, the Lua output has the zero-argument factories M.<Struct> and
\* M.<Struct>Ptr, and the FFI struct lists the fields in declaration order.
C9_DefaultFactories ==
  pc = "done" =>
    PlainStructsHaveFactories(TraversedStructs(tu), VMText, LuaText)

\* C10: the host export of every variadic function calls <name>V with args
\* as last argument, after va_start(args, ...) and before va_end(args), and
\* no return statement precedes va_end, for void and non-void return types.
C10_VariadicBracketing ==
  pc = "done" => VariadicsBracketed(Emitted(tu), HostText)

\* C11: the FFI output for every enum with at least one constant is a C enum
\* listing all constants in declaration order, each constant that has an
\* initializer expression in the source (a literal, a shift or or
\* expression, a reference to another constant) written as "name = text of
\* the initializer"; an enum with no constants is a typedef alias of its
\* canonical underlying integer type.
C11_EnumValuesPreserved ==
  pc = "done" => EnumsFaithful(TraversedEnums(tu), VMText)

\* C12: determinism: two runs of generate (detectOverloads, then _traverse)
\* on the same tree with the same child order end with the same rename
\* table and the same three files, fragment for fragment in the same order,
\* whatever the order in which each run's fctCache yields its groups, and
\* whether the second run is by a new generator or by the first run's.
C12_Determinism ==
  (pc = "done" /\ previous # NoRun) => Outputs = previous

\* a second run has ended on a header with two overload groups (the free
\* functions Draw, the methods Rect::Draw), a struct and functions with
\* defaults
C12_Witness ==
  /\ pc = "done"
  /\ previous # NoRun
  /\ Len(overloadGroups(tu)) >= 2
  /\ Len(tLuaFile) >= 4
  /\ Contains(LuaText, "function M.Draw3(")
  /\ Contains(LuaText, "function M.Rect_Draw2(")
  /\ Contains(VMText, "typedef struct Rect {")

\* C13: for a float or double parameter the converted default denotes the
\* same number as the C++ literal: the conversion takes away only the suffix
\* f and a trailing ".0" (1.0f gives 1, and 1.05f keeps the value 1.05).
C13_FloatDefaultValue ==
  pc = "optdone" => FloatDefaultsPreserved(optDecl, optResult)

\* C14: the value factory M.<Struct> of every emitted constructor with one
\* or more parameters has one parameter per constructor parameter, in
\* declaration order, named as the parameter with a leading underscore
\* dropped (wherever the parameter is in the list), no two alike, and its
\* body allocates an instance and assigns each parameter once to the field
\* of its name.
C14_ConstructorParameters ==
  pc = "done" => ConstructorsAssignFields(TraversedStructs(tu), LuaText)

\* C15: within a run no two emitted declarations (free functions of any
\* namespace, methods or constructors of a struct, a USR declared more than
\* once) give two host export functions of the same C identifier or two Lua
\* wrappers or factories of the same M.<name>.
C15_UniqueIdentifiers ==
  pc = "done" =>
    /\ FunctionsUnique(Emitted(tu), HostText, LuaText)
    /\ FactoriesUnique(TraversedStructs(tu), LuaText)

====
